---- MODULE Spec2Model ----
(***************************************************************************)
(* Prompt Forge: the Forwarding Service (app/api/prompt/route.ts, in its   *)
(* two revisions), the Client Controller (app/page.tsx) and the image      *)
(* analysis endpoint (app/api/analyze-image/route.ts).                     *)
(*                                                                         *)
(* Strings the code only passes around are TLA+ strings.  Strings the code *)
(* slices or pattern-matches (the API key, the base URL, the resource id)  *)
(* are sequences of pieces, one piece per character unless a definition    *)
(* says otherwise; Join turns such a sequence into the string it spells.   *)
(***************************************************************************)
EXTENDS Integers, Sequences, FiniteSets, TLC

VARIABLES
    inv,    \* per caller: the Forwarding Service invocation serving it
    now,    \* the server's clock (Date.now()), in milliseconds
    \* The Client Controller's React state (PromptForge in page.tsx).
    baseUrl, apiKey, selectedEndpoint, resourceId, body,
    response, isLoading, error, logs, compileResult,
    sub,    \* the running activation of handleSubmit, if any
    \* The compile panel's React state.
    parameters, variableValues, loadingParams, paramsLoaded, paramsError,
    timer,  \* the pending setTimeout of the auto-fetch effect, if any
    pfetch, \* the activations of fetchParameters awaiting their response
    img     \* the invocation of the image analysis endpoint

fwdVars == <<inv, now>>

formVars == <<baseUrl, apiKey, selectedEndpoint, resourceId, body>>

paramVars == <<parameters, variableValues, loadingParams, paramsLoaded,
               paramsError, timer, pfetch>>

clientVars == <<baseUrl, apiKey, selectedEndpoint, resourceId, body,
                response, isLoading, error, logs, compileResult, sub,
                parameters, variableValues, loadingParams, paramsLoaded,
                paramsError, timer, pfetch>>

vars == <<inv, now, baseUrl, apiKey, selectedEndpoint, resourceId, body,
          response, isLoading, error, logs, compileResult, sub,
          parameters, variableValues, loadingParams, paramsLoaded,
          paramsError, timer, pfetch, img>>

(***************************************************************************)
(* Bounds.                                                                 *)
(***************************************************************************)
MaxTime == 2

\* The activations of fetchParameters that may await a response at once.
MaxParamFetches == 2

(***************************************************************************)
(* JSON.  A JSON value is a record tagged by k.                            *)
(***************************************************************************)
JNull == [k |-> "null"]

JNum(n) == [k |-> "num", n |-> n]

JStr(s) == [k |-> "str", s |-> s]

JObj(f) == [k |-> "obj", f |-> f]

JArr(a) == [k |-> "arr", a |-> a]

\* An absent property (JavaScript undefined).
JUndefined == [k |-> "undefined"]

\* The JSON values the texts below denote.
ObjA == JObj([a |-> JNum(1)])

\* The texts an HTTP body is drawn from: JSON in compact form, the same JSON
\* with insignificant whitespace, JSON null, a JSON string literal, text
\* that is no JSON, and the empty text.
TxtObjA == "{\"a\":1}"

TxtObjASpaced == "{ \"a\": 1 }"

TxtNull == "null"

TxtStrHi == "\"hi\""

TxtPlain == "plain text"

TxtEmpty == ""

TxtCompiled == "{\"compiled\":\"Hi\"}"

ObjCompiled == JObj([compiled |-> JStr("Hi")])

\* A compile answer whose data member is an object without compiled.
TxtShadowed == "{\"compiled\":\"Hi\",\"data\":{\"a\":1}}"

ObjShadowed == JObj([compiled |-> JStr("Hi"), data |-> ObjA])

\* The answers to GET .../prompts/<id>/parameters: the variables under data,
\* and the variables directly in the answer.
TxtParamsNested == "{\"data\":{\"variables\":[{\"variableId\":\"name\"}]}}"

ObjParamsNested ==
    JObj([data |-> JObj([variables |-> JArr(<<JObj([variableId |-> JStr("name")])>>)])])

TxtParamsFlat == "{\"variables\":[{\"variableId\":\"topic\"}]}"

ObjParamsFlat == JObj([variables |-> JArr(<<JObj([variableId |-> JStr("topic")])>>)])

Texts == {TxtObjA, TxtObjASpaced, TxtNull, TxtStrHi, TxtPlain, TxtEmpty, TxtCompiled}

\* JSON.parse(text): ok with the value, or not ok (a SyntaxError is thrown).
JsonParse(text) ==
    CASE text = TxtObjA       -> [ok |-> TRUE, val |-> ObjA]
      [] text = TxtObjASpaced -> [ok |-> TRUE, val |-> ObjA]
      [] text = TxtNull       -> [ok |-> TRUE, val |-> JNull]
      [] text = TxtStrHi      -> [ok |-> TRUE, val |-> JStr("hi")]
      [] text = TxtCompiled   -> [ok |-> TRUE, val |-> ObjCompiled]
      [] text = TxtShadowed   -> [ok |-> TRUE, val |-> ObjShadowed]
      [] text = TxtParamsNested -> [ok |-> TRUE, val |-> ObjParamsNested]
      [] text = TxtParamsFlat -> [ok |-> TRUE, val |-> ObjParamsFlat]
      [] OTHER                -> [ok |-> FALSE, val |-> JNull]

\* JSON.stringify(value) with no indentation.
JsonStringify(val) ==
    CASE val = ObjA       -> TxtObjA
      [] val = JNull      -> TxtNull
      [] val = JStr("hi") -> TxtStrHi
      [] val = ObjCompiled -> TxtCompiled
      [] OTHER            -> TxtNull

(***************************************************************************)
(* The incoming request of the Forwarding Service.                         *)
(***************************************************************************)
\* A property read from the payload: undefined, or a string.
Undefined == [def |-> FALSE, s |-> ""]

Str(x) == [def |-> TRUE, s |-> x]

\* JavaScript truthiness of such a value: `!field` is its negation.
Truthy(f) == f.def /\ f.s # ""

\* The request body as req.json() sees it.  kind "invalid": not JSON (json()
\* rejects); "null": the JSON value null; "prim": a JSON number, string,
\* boolean or array (every property read gives undefined); "obj": an object.
NonObject(kind) ==
    [kind |-> kind, targetUrl |-> Undefined, apiUrl |-> Undefined,
     apiKey |-> Undefined, method |-> Undefined, body |-> Undefined]

UpstreamUrl == "https://up.example/api"

MethodValues == {Undefined, Str(""), Str("GET"), Str("POST"), Str("PUT"),
                 Str("DELETE"), Str("PATCH")}

BodyValues == {Undefined} \cup {Str(t) : t \in {TxtEmpty, TxtObjASpaced, TxtPlain}}

UrlValues == {Undefined, Str(""), Str(UpstreamUrl)}

KeyValues == {Undefined, Str(""), Str("sk-key")}

\* What a direct caller of the targetUrl/method revision may send.
ProxyRequest ==
    {NonObject("invalid"), NonObject("null"), NonObject("prim")}
    \cup [kind : {"obj"}, targetUrl : UrlValues, apiUrl : {Undefined},
          apiKey : KeyValues, method : MethodValues, body : BodyValues]

\* What a direct caller of the apiUrl/body revision may send.
PromptRequest ==
    {NonObject("invalid"), NonObject("null"), NonObject("prim")}
    \cup [kind : {"obj"}, targetUrl : {Undefined}, apiUrl : UrlValues,
          apiKey : KeyValues, method : {Undefined}, body : BodyValues]

(***************************************************************************)
(* The upstream: what fetch() and response.text() can produce.             *)
(***************************************************************************)
StatusText(status) ==
    CASE status = 200 -> "OK"
      [] status = 204 -> "No Content"
      [] status = 304 -> "Not Modified"
      [] status = 404 -> "Not Found"
      [] status = 500 -> "Internal Server Error"
      [] OTHER        -> ""

UpStatuses == {200, 204, 304, 404, 500}

NoHeaders == [h \in {} |-> ""]

RateHeaders ==
    [h \in {"x-ratelimit-remaining", "x-ratelimit-limit", "x-request-id"} |->
        CASE h = "x-ratelimit-remaining" -> "9"
          [] h = "x-ratelimit-limit"     -> "10"
          [] OTHER                       -> "req-1"]

UpHeaderSets == {NoHeaders, RateHeaders}

\* The status line and headers of an upstream response.
UpHeads == [status : UpStatuses, headers : UpHeaderSets]

\* The upstream a Client Controller session talks to answers from smaller sets.
ClientUpHeads ==
    {[status |-> 200, headers |-> RateHeaders], [status |-> 404, headers |-> NoHeaders]}

ClientTexts == {TxtPlain, TxtEmpty, TxtCompiled, TxtShadowed}

UpHeadsOf(c) == IF c = "direct" THEN UpHeads ELSE ClientUpHeads

TextsOf(c) == IF c = "direct" THEN Texts ELSE ClientTexts

\* What fetch() or text() rejects with: always an Error with a message.
NetErrors == {[isError |-> TRUE, message |-> "fetch failed"],
              [isError |-> TRUE, message |-> "terminated"]}

\* response.ok
IsOk(status) == status >= 200 /\ status <= 299

\* The statuses a Response may not carry a body with: NextResponse.json
\* throws a TypeError when given one of them.
NullBodyStatus == {101, 103, 204, 205, 304}

(***************************************************************************)
(* The Forwarding Service: one invocation of POST.                         *)
(***************************************************************************)
\* Who calls the service: any HTTP client directly, or the Client
\* Controller's handleSubmit.
Callers == {"direct", "submit"}

NoOut ==
    [sent |-> FALSE, url |-> "", method |-> "", contentType |-> "",
     auth |-> "", hasBody |-> FALSE, body |-> ""]

NoUp == [reached |-> FALSE, status |-> 0, statusText |-> "", headers |-> NoHeaders]

NoMeta ==
    [status |-> 0, statusText |-> "", duration |-> 0,
     responseHeaders |-> NoHeaders, hasSentBody |-> FALSE, sentBody |-> JNull]

\* An absent property of the response body is has* = FALSE.
NoBody ==
    [hasError |-> FALSE, error |-> "", hasResult |-> FALSE, result |-> JNull,
     hasMeta |-> FALSE, meta |-> NoMeta]

NoResp == [sent |-> FALSE, status |-> 0, uncaught |-> FALSE, body |-> NoBody]

\* rev: which revision of route.ts serves the call.  pc: "idle" (no call),
\* "fetching" (awaiting fetch), "reading" (awaiting response.text()),
\* "done" (POST has returned or thrown).  calls counts the fetch() calls
\* made, as a spy on the upstream would; responseText is the body text once
\* text() has resolved; caught is the exception the catch block received.
IdleInv ==
    [rev |-> "proxy", pc |-> "idle", raw |-> NonObject("invalid"),
     out |-> NoOut, calls |-> 0, startTime |-> 0, duration |-> 0,
     parsedBody |-> JNull, up |-> NoUp,
     responseText |-> [read |-> FALSE, s |-> ""],
     caught |-> [is |-> FALSE, message |-> ""], resp |-> NoResp]

\* NextResponse.json({ error }, { status })
ErrorResponse(status, message) ==
    [sent |-> TRUE, status |-> status, uncaught |-> FALSE,
     body |-> [NoBody EXCEPT !.hasError = TRUE, !.error = message]]

\* An exception that leaves POST: the framework answers 500 with no JSON body.
UncaughtResponse == [sent |-> TRUE, status |-> 500, uncaught |-> TRUE, body |-> NoBody]

\* error instanceof Error ? error.message : 'Failed to reach the API'
ErrMessage(e) == IF e.isError THEN e.message ELSE "Failed to reach the API"

\* Mutant: the body is attached whatever the method.
fetchOptions_AnyMethod(raw) ==
    [sent |-> TRUE, url |-> raw.targetUrl.s, method |-> raw.method.s,
     contentType |-> "application/json", auth |-> "Bearer " \o raw.apiKey.s,
     hasBody |-> Truthy(raw.body),
     body |-> IF Truthy(raw.body) THEN raw.body.s ELSE ""]

\* The RequestInit of the targetUrl/method revision.
fetchOptions(raw) ==
    LET attach == Truthy(raw.body) /\ (raw.method.s = "POST" \/ raw.method.s = "PUT")
    IN  [sent |-> TRUE, url |-> raw.targetUrl.s, method |-> raw.method.s,
         contentType |-> "application/json", auth |-> "Bearer " \o raw.apiKey.s,
         hasBody |-> attach, body |-> IF attach THEN raw.body.s ELSE ""]

\* Mutant: the presence check forgets the method.
ProxyPOST_NoMethodCheck(raw, t) ==
    LET i == [IdleInv EXCEPT !.rev = "proxy", !.raw = raw, !.pc = "done"]
    IN  IF raw.kind = "invalid"
        THEN [i EXCEPT !.resp = ErrorResponse(400, "Invalid JSON")]
        ELSE IF raw.kind = "null"
        THEN [i EXCEPT !.resp = UncaughtResponse]
        ELSE IF ~Truthy(raw.targetUrl) \/ ~Truthy(raw.apiKey)
        THEN [i EXCEPT !.resp = ErrorResponse(400, "Missing required fields")]
        ELSE [i EXCEPT !.pc = "fetching", !.startTime = t,
                       !.out = fetchOptions(raw), !.calls = 1]

\* POST of the targetUrl/method revision, up to its first await of fetch().
ProxyPOST(raw, t) ==
    LET i == [IdleInv EXCEPT !.rev = "proxy", !.raw = raw, !.pc = "done"]
    IN  IF raw.kind = "invalid"
        THEN [i EXCEPT !.resp = ErrorResponse(400, "Invalid JSON")]
        ELSE IF raw.kind = "null"
        THEN [i EXCEPT !.resp = UncaughtResponse]
        ELSE IF ~Truthy(raw.targetUrl) \/ ~Truthy(raw.apiKey) \/ ~Truthy(raw.method)
        THEN [i EXCEPT !.resp = ErrorResponse(400, "Missing required fields")]
        ELSE [i EXCEPT !.pc = "fetching", !.startTime = t,
                       !.out = fetchOptions(raw), !.calls = 1]

\* POST of the apiUrl/body revision, up to its first await of fetch().
PromptPOST(raw, t) ==
    LET i == [IdleInv EXCEPT !.rev = "prompt", !.raw = raw, !.pc = "done"]
        parsed == JsonParse(raw.body.s)
    IN  IF raw.kind = "invalid"
        THEN [i EXCEPT !.resp = ErrorResponse(400, "Invalid JSON")]
        ELSE IF raw.kind = "null"
        THEN [i EXCEPT !.resp = UncaughtResponse]
        ELSE IF ~Truthy(raw.apiUrl) \/ ~Truthy(raw.apiKey) \/ ~Truthy(raw.body)
        THEN [i EXCEPT !.resp = ErrorResponse(400, "Missing required fields")]
        ELSE IF ~parsed.ok
        THEN [i EXCEPT !.resp = ErrorResponse(400, "Request body is not valid JSON")]
        ELSE [i EXCEPT !.pc = "fetching", !.startTime = t, !.calls = 1,
                       !.parsedBody = parsed.val,
                       !.out = [sent |-> TRUE, url |-> raw.apiUrl.s, method |-> "POST",
                                contentType |-> "application/json",
                                auth |-> "Bearer " \o raw.apiKey.s,
                                hasBody |-> TRUE, body |-> JsonStringify(parsed.val)]]

\* Mutant: the catch block answers 500 and reports the upstream's status.
CatchResponse_Generic(i, e, t) ==
    [sent |-> TRUE, status |-> 500, uncaught |-> FALSE,
     body |-> [NoBody EXCEPT
        !.hasError = TRUE, !.error = ErrMessage(e),
        !.hasMeta = TRUE,
        !.meta = [status |-> i.up.status, statusText |-> i.up.statusText,
                  duration |-> t - i.startTime, responseHeaders |-> NoHeaders,
                  hasSentBody |-> (i.rev = "prompt"), sentBody |-> i.parsedBody]]]

\* The catch block: HTTP 502 with the network-error envelope.
CatchResponse(i, e, t) ==
    [sent |-> TRUE, status |-> 502, uncaught |-> FALSE,
     body |-> [NoBody EXCEPT
        !.hasError = TRUE, !.error = ErrMessage(e),
        !.hasMeta = TRUE,
        !.meta = [status |-> 0, statusText |-> "Network Error",
                  duration |-> t - i.startTime, responseHeaders |-> NoHeaders,
                  hasSentBody |-> (i.rev = "prompt"), sentBody |-> i.parsedBody]]]

OnThrow(i, e, t) ==
    [i EXCEPT !.pc = "done", !.caught = [is |-> TRUE, message |-> e.message],
              !.resp = CatchResponse(i, e, t)]

\* fetch() resolved: the duration is taken, the headers are collected and
\* response.text() is awaited.
OnFetchResolved(i, head, t) ==
    [i EXCEPT !.pc = "reading", !.duration = t - i.startTime,
              !.up = [reached |-> TRUE, status |-> head.status,
                      statusText |-> StatusText(head.status),
                      headers |-> head.headers]]

\* Mutant: no fallback to the raw text when the parse fails.
responseData_NoFallback(responseText) == JsonParse(responseText).val

\* try { responseData = JSON.parse(responseText) } catch { responseData = responseText }
responseData(responseText) ==
    LET parsed == JsonParse(responseText)
    IN  IF parsed.ok THEN parsed.val ELSE JStr(responseText)

\* The envelope { result, meta } of a completed call.
SuccessBody(i, responseText) ==
    [NoBody EXCEPT
        !.hasResult = TRUE, !.result = responseData(responseText),
        !.hasMeta = TRUE,
        !.meta = [status |-> i.up.status, statusText |-> i.up.statusText,
                  duration |-> i.duration, responseHeaders |-> i.up.headers,
                  hasSentBody |-> (i.rev = "prompt"), sentBody |-> i.parsedBody]]

\* Mutant: both revisions echo a non-2xx upstream status.
OuterStatus_Echo(i) == IF IsOk(i.up.status) THEN 200 ELSE i.up.status

\* The outer status of a completed call: the targetUrl/method revision gives
\* none (200); the apiUrl/body revision gives response.ok ? 200 : response.status.
OuterStatus(i) ==
    IF i.rev = "proxy" THEN 200
    ELSE IF IsOk(i.up.status) THEN 200 ELSE i.up.status

\* response.text() resolved: the final NextResponse.json.  It throws, inside
\* the try, when the outer status may not carry a body.
OnText(i, responseText, t) ==
    IF OuterStatus(i) \in NullBodyStatus
    THEN OnThrow([i EXCEPT !.responseText = [read |-> TRUE, s |-> responseText]],
                 [isError |-> TRUE, message |-> "Invalid response status code"], t)
    ELSE [i EXCEPT !.pc = "done",
                   !.responseText = [read |-> TRUE, s |-> responseText],
                   !.resp = [sent |-> TRUE, status |-> OuterStatus(i),
                             uncaught |-> FALSE, body |-> SuccessBody(i, responseText)]]

(***************************************************************************)
(* Actions of the Forwarding Service.                                      *)
(***************************************************************************)
\* A direct caller posts any request body to either revision.
Receive ==
    /\ inv["direct"].pc = "idle"
    /\ \/ \E raw \in ProxyRequest :
            inv' = [inv EXCEPT !["direct"] = ProxyPOST(raw, now)]
       \/ \E raw \in PromptRequest :
            inv' = [inv EXCEPT !["direct"] = PromptPOST(raw, now)]
    /\ UNCHANGED <<now, clientVars, img>>

FetchResolves(c) ==
    /\ inv[c].pc = "fetching"
    /\ \E head \in UpHeadsOf(c) : inv' = [inv EXCEPT ![c] = OnFetchResolved(inv[c], head, now)]
    /\ UNCHANGED <<now, clientVars, img>>

FetchRejects(c) ==
    /\ inv[c].pc = "fetching"
    /\ \E e \in NetErrors : inv' = [inv EXCEPT ![c] = OnThrow(inv[c], e, now)]
    /\ UNCHANGED <<now, clientVars, img>>

TextResolves(c) ==
    /\ inv[c].pc = "reading"
    /\ \E text \in TextsOf(c) : inv' = [inv EXCEPT ![c] = OnText(inv[c], text, now)]
    /\ UNCHANGED <<now, clientVars, img>>

TextRejects(c) ==
    /\ inv[c].pc = "reading"
    /\ \E e \in NetErrors : inv' = [inv EXCEPT ![c] = OnThrow(inv[c], e, now)]
    /\ UNCHANGED <<now, clientVars, img>>

\* The direct caller has its response; the invocation is over.
Return ==
    /\ inv["direct"].pc = "done"
    /\ inv' = [inv EXCEPT !["direct"] = IdleInv]
    /\ UNCHANGED <<now, clientVars, img>>

Tick ==
    /\ now < MaxTime
    /\ now' = now + 1
    /\ UNCHANGED <<inv, clientVars, img>>

(***************************************************************************)
(* The Client Controller (page.tsx).                                       *)
(***************************************************************************)
\* The string a sequence of pieces spells.
RECURSIVE Join(_)
Join(seq) == IF seq = <<>> THEN "" ELSE Head(seq) \o Join(Tail(seq))

Min(a, b) == IF a < b THEN a ELSE b

Max(a, b) == IF a > b THEN a ELSE b

\* s.slice(0, n) and s.slice(-n) of a string of characters.
SliceFirst(s, n) == SubSeq(s, 1, Min(n, Len(s)))

SliceLast(s, n) == SubSeq(s, Max(Len(s) - n, 0) + 1, Len(s))

\* The endpoint catalog.  A path is a sequence of pieces in which the
\* placeholder ":id" is one piece.
ENDPOINTS == <<
    [id |-> "compile-prompt", method |-> "POST",
     path |-> <<"/api/v1/prompts/", ":id", "/compile">>,
     hasPromptId |-> TRUE, hasBody |-> TRUE,
     defaultBody |-> "{\n  \"variables\": {}\n}"],
    [id |-> "list-prompts", method |-> "GET",
     path |-> <<"/api/v1/prompts">>,
     hasPromptId |-> FALSE, hasBody |-> FALSE, defaultBody |-> ""],
    [id |-> "get-prompt", method |-> "GET",
     path |-> <<"/api/v1/prompts/", ":id">>,
     hasPromptId |-> TRUE, hasBody |-> FALSE, defaultBody |-> ""],
    [id |-> "create-prompt", method |-> "POST",
     path |-> <<"/api/v1/prompts">>,
     hasPromptId |-> FALSE, hasBody |-> TRUE,
     defaultBody |-> "{\n  \"name\": \"My Prompt\",\n  \"description\": \"A new prompt\"\n}"],
    [id |-> "update-prompt", method |-> "PUT",
     path |-> <<"/api/v1/prompts/", ":id">>,
     hasPromptId |-> TRUE, hasBody |-> TRUE,
     defaultBody |-> "{\n  \"description\": \"Updated description\"\n}"],
    [id |-> "delete-prompt", method |-> "DELETE",
     path |-> <<"/api/v1/prompts/", ":id">>,
     hasPromptId |-> TRUE, hasBody |-> FALSE, defaultBody |-> ""],
    [id |-> "prompt-parameters", method |-> "GET",
     path |-> <<"/api/v1/prompts/", ":id", "/parameters">>,
     hasPromptId |-> TRUE, hasBody |-> FALSE, defaultBody |-> ""],
    [id |-> "list-tools", method |-> "GET",
     path |-> <<"/api/v1/tools">>,
     hasPromptId |-> FALSE, hasBody |-> FALSE, defaultBody |-> ""],
    [id |-> "get-tool", method |-> "GET",
     path |-> <<"/api/v1/tools/", ":id">>,
     hasPromptId |-> TRUE, hasBody |-> FALSE, defaultBody |-> ""] >>

EndpointSet == {ENDPOINTS[n] : n \in DOMAIN ENDPOINTS}

\* const isCompile = selectedEndpoint.id === 'compile-prompt'
isCompile == selectedEndpoint.id = "compile-prompt"

\* What the user may type.  A base URL is a host piece, with or without a
\* trailing slash; keys and resource ids are strings of characters.
DefaultBase == <<"https://main.d2r2bhlvzb3q6.amplifyapp.com">>

BaseUrls == {<<>>, DefaultBase \o <<"/">>}

ShortKey == <<"a", "b", "c">>

LongKey == <<"s", "k", "-", "a", "b", "c", "d", "e", "f", "g", "h", "i", "j">>

\* The key field starts empty; the user types a key into it.
ApiKeys == {ShortKey, LongKey}

\* Two prompt ids; the second holds a replacement pattern of
\* String.prototype.replace.
P1 == <<"p", "1">>

P2 == <<"$", "&">>

ResourceIds == {<<>>, P1, P2}

\* What the user types into a variable's field.
VariableTexts == {<<>>, <<" ">>, <<"x">>}

\* The user clears the body or restores the endpoint's default.
TypedBodies == {""}

\* The endpoints the user clicks: one that takes an id and a body, one that
\* takes a body only and one that takes an id only.
Clicked == {ep \in EndpointSet :
              ep.id \in {"compile-prompt", "create-prompt", "delete-prompt"}}

\* baseUrl.replace(/\/+$/, '')
RECURSIVE StripTrailingSlashes(_)
StripTrailingSlashes(s) ==
    IF s # <<>> /\ s[Len(s)] = "/"
    THEN StripTrailingSlashes(SubSeq(s, 1, Len(s) - 1))
    ELSE s

\* The replacement string of String.prototype.replace, expanded: $$ is a
\* dollar sign, $& the matched text, $` the text before the match and $' the
\* text after it.
RECURSIVE ExpandReplacement(_, _, _, _)
ExpandReplacement(with, before, matched, after) ==
    IF with = <<>> THEN <<>>
    ELSE IF Len(with) >= 2 /\ with[1] = "$" /\ with[2] \in {"$", "&", "`", "'"}
    THEN (CASE with[2] = "$" -> <<"$">>
            [] with[2] = "&" -> <<matched>>
            [] with[2] = "`" -> before
            [] with[2] = "'" -> after)
         \o ExpandReplacement(SubSeq(with, 3, Len(with)), before, matched, after)
    ELSE <<Head(with)>> \o ExpandReplacement(Tail(with), before, matched, after)

\* path.replace(':id', id): the first occurrence of the placeholder only.
ReplaceFirst(path, token, with) ==
    IF \E n \in DOMAIN path : path[n] = token
    THEN LET n == CHOOSE n \in DOMAIN path :
                    path[n] = token /\ \A m \in 1..(n - 1) : path[m] # token
             before == SubSeq(path, 1, n - 1)
             after == SubSeq(path, n + 1, Len(path))
         IN  before \o ExpandReplacement(with, before, token, after) \o after
    ELSE path

buildUrl ==
    LET base == StripTrailingSlashes(baseUrl)
        path == IF selectedEndpoint.hasPromptId /\ resourceId # <<>>
                THEN ReplaceFirst(selectedEndpoint.path, ":id", resourceId)
                ELSE selectedEndpoint.path
    IN  Join(base \o path)

\* `${apiKey.slice(0, 6)}...${apiKey.slice(-4)}`
RedactedKey(key) == SliceFirst(key, 6) \o <<".", ".", ".">> \o SliceLast(key, 4)

\* A log entry; its wall-clock time of day is left out.
LogEntry(type, message) == [type |-> type, message |-> message]

NoCompileResult ==
    [set |-> FALSE, compiled |-> "", promptId |-> "", version |-> "",
     variables |-> JUndefined]

\* The activation of handleSubmit: what its closure holds across the await.
\* posts counts its fetch('/api/prompt') calls.
NoSub ==
    [pc |-> "idle", req |-> NonObject("invalid"), isCompile |-> FALSE,
     resourceId |-> <<>>, apiKey |-> <<>>, posts |-> 0]

\* JavaScript truthiness of a JSON value.
JsTruthy(v) ==
    CASE v.k = "undefined" -> FALSE
      [] v.k = "null"      -> FALSE
      [] v.k = "str"       -> v.s # ""
      [] v.k = "num"       -> v.n # 0
      [] OTHER             -> TRUE

\* v[name], and v?.[name]: undefined unless v is an object that has it.
Get(v, name) ==
    IF v.k = "obj" /\ name \in DOMAIN v.f THEN v.f[name] ELSE JUndefined

\* JSON.stringify(value, null, 2)
JsonPretty(v) ==
    CASE v.k = "str"     -> "\"" \o v.s \o "\""
      [] v.k = "num"     -> ToString(v.n)
      [] v = ObjA        -> "{\n  \"a\": 1\n}"
      [] v = ObjCompiled -> "{\n  \"compiled\": \"Hi\"\n}"
      [] v = ObjShadowed -> "{\n  \"compiled\": \"Hi\",\n  \"data\": {\n    \"a\": 1\n  }\n}"
      [] OTHER           -> "null"

\* h[name] is truthy
HasHeader(h, name) == name \in DOMAIN h /\ h[name] # ""

\* The request handleSubmit posts to /api/prompt.
SubmitRequest(targetUrl) ==
    [kind |-> "obj", targetUrl |-> Str(targetUrl), apiUrl |-> Undefined,
     apiKey |-> Str(Join(apiKey)), method |-> Str(selectedEndpoint.method),
     body |-> IF selectedEndpoint.hasBody THEN Str(body) ELSE Undefined]

\* Mutant: the "Sending request..." line is logged first.
RequestLogs_SendingFirst(targetUrl) ==
    <<LogEntry("info", "Sending request..."),
      LogEntry("info", selectedEndpoint.method \o " " \o targetUrl),
      LogEntry("info", "Authorization: Bearer " \o Join(RedactedKey(apiKey)))>>
    \o (IF selectedEndpoint.hasBody /\ body # ""
        THEN <<LogEntry("info", "Body: " \o ToString(Len(body)) \o " bytes")>>
        ELSE <<>>)

\* The lines handleSubmit logs before it awaits fetch.
RequestLogs(targetUrl) ==
    <<LogEntry("info", selectedEndpoint.method \o " " \o targetUrl),
      LogEntry("info", "Authorization: Bearer " \o Join(RedactedKey(apiKey)))>>
    \o (IF selectedEndpoint.hasBody /\ body # ""
        THEN <<LogEntry("info", "Body: " \o ToString(Len(body)) \o " bytes")>>
        ELSE <<>>)
    \o <<LogEntry("info", "Sending request...")>>

\* Mutant: the resource id is checked before the base URL and the key.
ValidationError_IdFirst ==
    IF selectedEndpoint.hasPromptId /\ resourceId = <<>>
    THEN "Please enter a resource ID"
    ELSE IF baseUrl = <<>> \/ apiKey = <<>>
    THEN "Please enter a Base URL and API Key"
    ELSE IF selectedEndpoint.hasBody /\ body = ""
    THEN "Please enter a request body"
    ELSE ""

\* The first failing check of handleSubmit, "" when all pass.
ValidationError ==
    IF baseUrl = <<>> \/ apiKey = <<>>
    THEN "Please enter a Base URL and API Key"
    ELSE IF selectedEndpoint.hasPromptId /\ resourceId = <<>>
    THEN "Please enter a resource ID"
    ELSE IF selectedEndpoint.hasBody /\ body = ""
    THEN "Please enter a request body"
    ELSE ""

\* Mutant: the submit button is never disabled.
SubmitDisabled_Never == FALSE

\* disabled={isLoading} of the submit button.
SubmitDisabled == isLoading

\* handleSubmit, from the click to its await of fetch.
HandleSubmit ==
    /\ ~SubmitDisabled
    /\ IF ValidationError # ""
       THEN /\ error' = ValidationError
            /\ UNCHANGED <<response, isLoading, logs, compileResult, sub>>
       ELSE LET targetUrl == buildUrl
            IN  /\ isLoading' = TRUE
                /\ error' = ""
                /\ response' = ""
                /\ compileResult' = NoCompileResult
                /\ logs' = RequestLogs(targetUrl)
                /\ sub' = [pc |-> "fetch", req |-> SubmitRequest(targetUrl),
                           isCompile |-> isCompile, resourceId |-> resourceId,
                           apiKey |-> apiKey, posts |-> 1]
    /\ UNCHANGED <<formVars, fwdVars, paramVars, img>>

\* The posted request reaches the Forwarding Service.
Deliver ==
    /\ sub.pc = "fetch"
    /\ inv["submit"].pc = "idle"
    /\ inv' = [inv EXCEPT !["submit"] = ProxyPOST(sub.req, now)]
    /\ UNCHANGED <<now, clientVars, img>>

\* The status line and the two header lines logged when data.meta is there.
MetaLogs(meta) ==
    LET h == meta.responseHeaders
    IN  <<LogEntry(IF meta.status >= 200 /\ meta.status < 300 THEN "success" ELSE "error",
                   ToString(meta.status) \o " " \o meta.statusText
                   \o " (" \o ToString(meta.duration) \o "ms)")>>
        \o (IF HasHeader(h, "x-ratelimit-remaining")
            THEN <<LogEntry("info", "Rate limit: " \o h["x-ratelimit-remaining"] \o "/"
                    \o (IF HasHeader(h, "x-ratelimit-limit")
                        THEN h["x-ratelimit-limit"] ELSE "?")
                    \o " remaining")>>
            ELSE <<>>)
        \o (IF HasHeader(h, "x-request-id")
            THEN <<LogEntry("info", "Request ID: " \o h["x-request-id"])>>
            ELSE <<>>)

\* data.error && !data.result
IsErrorEnvelope(data) ==
    (data.hasError /\ data.error # "") /\ ~(data.hasResult /\ JsTruthy(data.result))

\* The compile result taken from data.result, if it has the shape.
ExtractCompile(result, rid) ==
    LET r == IF JsTruthy(Get(result, "data")) THEN Get(result, "data") ELSE result
        c == Get(r, "compiled")
    IN  IF c.k = "str" /\ c.s # ""
        THEN [set |-> TRUE, compiled |-> c.s,
              promptId |-> IF JsTruthy(Get(r, "promptId"))
                           THEN Get(r, "promptId").s ELSE Join(rid),
              version |-> IF JsTruthy(Get(r, "version"))
                          THEN Get(r, "version").s ELSE "?",
              variables |-> IF JsTruthy(Get(r, "variables"))
                            THEN Get(r, "variables") ELSE JUndefined]
        ELSE NoCompileResult

\* Mutant: no finally block, isLoading stays as it is after a failure.
SubmitCatch_NoFinally(msg) ==
    /\ error' = msg
    /\ logs' = Append(logs, LogEntry("error", msg))
    /\ UNCHANGED <<response, compileResult, isLoading>>

\* The catch block of handleSubmit, then its finally.
SubmitCatch(msg) ==
    /\ error' = msg
    /\ logs' = Append(logs, LogEntry("error", msg))
    /\ isLoading' = FALSE
    /\ UNCHANGED <<response, compileResult>>

\* handleSubmit after its awaits: fetch resolved with the service's response
\* and res.json() settled.
SubmitResponse ==
    /\ sub.pc = "fetch"
    /\ inv["submit"].pc = "done"
    /\ LET res == inv["submit"].resp
           data == res.body
           hasResult == data.hasResult /\ JsTruthy(data.result)
           extracted == ExtractCompile(data.result, sub.resourceId)
       IN  IF res.uncaught
           THEN SubmitCatch("Unexpected end of JSON input")
           ELSE /\ logs' = logs
                    \o (IF data.hasMeta THEN MetaLogs(data.meta) ELSE <<>>)
                    \o (IF IsErrorEnvelope(data)
                        THEN <<LogEntry("error", data.error)>>
                        ELSE <<LogEntry("success", "Response received")>>)
                /\ error' = IF IsErrorEnvelope(data) THEN data.error ELSE error
                /\ response' = IF hasResult THEN JsonPretty(data.result) ELSE response
                /\ compileResult' = IF hasResult /\ sub.isCompile /\ extracted.set
                                    THEN extracted ELSE compileResult
                /\ isLoading' = FALSE
    /\ sub' = [NoSub EXCEPT !.posts = sub.posts]
    /\ inv' = [inv EXCEPT !["submit"] = IdleInv]
    /\ UNCHANGED <<formVars, now, paramVars, img>>

\* Mutant: a rejected fetch is tried again.
SubmitFetchRejects_Retry ==
    /\ sub.pc = "fetch"
    /\ sub.posts < 3
    /\ sub' = [sub EXCEPT !.posts = sub.posts + 1]
    /\ inv' = [inv EXCEPT !["submit"] = IdleInv]
    /\ UNCHANGED <<formVars, now, response, isLoading, error, logs, compileResult,
                   paramVars, img>>

\* fetch('/api/prompt') rejects: the browser could not complete the exchange.
\* What the invocation does afterwards reaches nobody.
SubmitFetchRejects ==
    /\ sub.pc = "fetch"
    /\ \E e \in NetErrors : SubmitCatch(e.message)
    /\ sub' = [NoSub EXCEPT !.posts = sub.posts]
    /\ inv' = [inv EXCEPT !["submit"] = IdleInv]
    /\ UNCHANGED <<formVars, now, paramVars, img>>

\* No setTimeout is pending.  A pending one holds the fetchParameters of the
\* render that set it, and with it that render's form values.
NoTimer == [set |-> FALSE, baseUrl |-> <<>>, apiKey |-> <<>>, resourceId |-> <<>>]

\* val.trim()
RECURSIVE Trim(_)
Trim(val) ==
    IF val # <<>> /\ Head(val) = " " THEN Trim(Tail(val))
    ELSE IF val # <<>> /\ val[Len(val)] = " " THEN Trim(SubSeq(val, 1, Len(val) - 1))
    ELSE val

\* The members of an object of strings, as JSON.stringify(_, null, 2)
\* writes them at the second level.
RECURSIVE PrettyEntries(_)
PrettyEntries(es) ==
    IF es = <<>> THEN ""
    ELSE "    \"" \o Head(es).key \o "\": \"" \o Join(Head(es).val) \o "\""
         \o (IF Tail(es) = <<>> THEN "" ELSE ",\n" \o PrettyEntries(Tail(es)))

\* Mutant: every entry is kept, blank or not.
SyncedBody_KeepBlank(values) ==
    IF values = <<>> THEN "{\n  \"variables\": {}\n}"
    ELSE "{\n  \"variables\": {\n" \o PrettyEntries(values) \o "\n  }\n}"

\* The body sync effect's JSON.stringify({ variables }, null, 2), variables
\* holding the entries whose value is not blank.  variableValues is the
\* sequence of its entries in insertion order.
SyncedBody(values) ==
    LET variables == SelectSeq(values, LAMBDA e : Trim(e.val) # <<>>)
    IN  IF variables = <<>> THEN "{\n  \"variables\": {}\n}"
        ELSE "{\n  \"variables\": {\n" \o PrettyEntries(variables) \o "\n  }\n}"

\* fetch('/api/prompt') resolves with a body that is no JSON (an error page
\* of the hosting platform in place of the service's answer): res.json()
\* rejects with a SyntaxError.
SubmitJsonRejects ==
    /\ sub.pc = "fetch"
    /\ SubmitCatch("Unexpected token '<', \"<!DOCTYPE \"... is not valid JSON")
    /\ sub' = [NoSub EXCEPT !.posts = sub.posts]
    /\ inv' = [inv EXCEPT !["submit"] = IdleInv]
    /\ UNCHANGED <<formVars, now, paramVars, img>>

\* The user edits the form.
SetBaseUrl ==
    /\ \E v \in BaseUrls : baseUrl' = v
    /\ UNCHANGED <<apiKey, selectedEndpoint, resourceId, body,
                   response, isLoading, error, logs, compileResult, sub, fwdVars,
                   paramVars, img>>

SetApiKey ==
    /\ \E v \in ApiKeys : apiKey' = v
    /\ UNCHANGED <<baseUrl, selectedEndpoint, resourceId, body,
                   response, isLoading, error, logs, compileResult, sub, fwdVars,
                   paramVars, img>>

\* The resource id input is rendered for endpoints that take an id.  The
\* auto-fetch effect follows the change: it drops the loaded parameters,
\* its cleanup clears the pending timer, and it sets a new timer around the
\* fetchParameters of this render.
SetResourceId ==
    /\ selectedEndpoint.hasPromptId
    /\ \E v \in ResourceIds :
        /\ v # resourceId
        /\ resourceId' = v
        /\ timer' = IF isCompile /\ v # <<>> /\ apiKey # <<>> /\ baseUrl # <<>>
                     THEN [set |-> TRUE, baseUrl |-> baseUrl, apiKey |-> apiKey,
                           resourceId |-> v]
                     ELSE NoTimer
    /\ parameters' = <<>>
    /\ variableValues' = <<>>
    /\ paramsLoaded' = FALSE
    /\ paramsError' = ""
    /\ UNCHANGED <<baseUrl, apiKey, selectedEndpoint, body,
                   response, isLoading, error, logs, compileResult, sub, fwdVars,
                   loadingParams, pfetch, img>>

\* The body textarea is rendered for endpoints that take a body, and on
\* the compile endpoint until the parameters are loaded.
SetBody ==
    /\ \/ selectedEndpoint.hasBody /\ ~isCompile
       \/ isCompile /\ ~paramsLoaded
    /\ \E v \in TypedBodies \cup {selectedEndpoint.defaultBody} : body' = v
    /\ UNCHANGED <<baseUrl, apiKey, selectedEndpoint, resourceId,
                   response, isLoading, error, logs, compileResult, sub, fwdVars,
                   paramVars, img>>

\* A click on another endpoint, with the effects that follow the change:
\* the endpoint effect, then the body sync effect (isCompile changed).
SelectEndpoint ==
    /\ \E ep \in Clicked :
        /\ ep # selectedEndpoint
        /\ selectedEndpoint' = ep
        /\ body' = IF ep.id = "compile-prompt" /\ paramsLoaded
                    THEN SyncedBody(variableValues)
                    ELSE ep.defaultBody
    /\ error' = ""
    /\ compileResult' = NoCompileResult
    /\ UNCHANGED <<baseUrl, apiKey, resourceId, response, isLoading, logs, sub, fwdVars,
                   paramVars, img>>

\* The Clear button of the activity log, rendered when the log is not empty.
ClearLogs ==
    /\ logs # <<>>
    /\ logs' = <<>>
    /\ UNCHANGED <<formVars, response, isLoading, error, compileResult, sub, fwdVars,
                   paramVars, img>>

(***************************************************************************)
(* The compile panel: fetchParameters, the auto-fetch timer and the        *)
(* variable form (page.tsx).                                               *)
(***************************************************************************)
\* The upstream's answers to GET .../prompts/<id>/parameters: the variables
\* of the prompt with that id, or a JSON answer without any.
ParamTextsOf(rid) ==
    (IF rid = P1 THEN {TxtParamsNested} ELSE IF rid = P2 THEN {TxtParamsFlat} ELSE {})
    \cup {TxtObjA}

\* `${base}/api/v1/prompts/${resourceId}/parameters`
ParamsUrl(base, rid) ==
    Join(StripTrailingSlashes(base) \o <<"/api/v1/prompts/">> \o rid \o <<"/parameters">>)

\* The request fetchParameters posts to /api/prompt; f is what its closure
\* holds of the form.
ParamRequest(f) ==
    [kind |-> "obj", targetUrl |-> Str(ParamsUrl(f.baseUrl, f.resourceId)),
     apiUrl |-> Undefined, apiKey |-> Str(Join(f.apiKey)), method |-> Str("GET"),
     body |-> Undefined]

\* The responses the Forwarding Service can give to that request.
ParamResponses(f) ==
    LET i == ProxyPOST(ParamRequest(f), now)
    IN  IF i.pc # "fetching" THEN {i.resp}
        ELSE {OnText(OnFetchResolved(i, ht[1], now), ht[2], now).resp :
                ht \in ClientUpHeads \X ParamTextsOf(f.resourceId)}
             \cup {OnThrow(i, e, now).resp : e \in NetErrors}

\* The variableId of each element of the variables array.
VariableIds(variables) ==
    [n \in DOMAIN variables.a |-> Get(variables.a[n], "variableId").s]

\* Remove(seq, k): seq without its k-th element.
Remove(seq, k) == SubSeq(seq, 1, k - 1) \o SubSeq(seq, k + 1, Len(seq))

\* Mutant: fetchParameters posts twice.
FetchParameters_Twice(f) ==
    IF f.baseUrl = <<>> \/ f.apiKey = <<>> \/ f.resourceId = <<>>
    THEN /\ paramsError' = "Enter Base URL, API Key, and Prompt ID first"
         /\ UNCHANGED <<loadingParams, pfetch>>
    ELSE /\ loadingParams' = TRUE
         /\ paramsError' = ""
         /\ pfetch' = pfetch \o <<f, f>>

\* fetchParameters, from its call to its await of fetch.
FetchParameters(f) ==
    IF f.baseUrl = <<>> \/ f.apiKey = <<>> \/ f.resourceId = <<>>
    THEN /\ paramsError' = "Enter Base URL, API Key, and Prompt ID first"
         /\ UNCHANGED <<loadingParams, pfetch>>
    ELSE /\ loadingParams' = TRUE
         /\ paramsError' = ""
         /\ pfetch' = Append(pfetch, f)

\* The debounce delay has passed: the timer calls the fetchParameters it holds.
TimerFires ==
    /\ timer.set
    /\ Len(pfetch) < MaxParamFetches
    /\ FetchParameters([baseUrl |-> timer.baseUrl, apiKey |-> timer.apiKey,
                        resourceId |-> timer.resourceId])
    /\ timer' = NoTimer
    /\ UNCHANGED <<formVars, fwdVars, response, isLoading, error, logs, compileResult,
                   sub, parameters, variableValues, paramsLoaded, img>>

\* The Load Prompt Parameters button: rendered on the compile endpoint until
\* the parameters are loaded, disabled while loading or without a resource id.
LoadParameters ==
    /\ isCompile /\ ~paramsLoaded
    /\ ~loadingParams /\ resourceId # <<>>
    /\ Len(pfetch) < MaxParamFetches
    /\ FetchParameters([baseUrl |-> baseUrl, apiKey |-> apiKey, resourceId |-> resourceId])
    /\ UNCHANGED <<formVars, fwdVars, response, isLoading, error, logs, compileResult,
                   sub, parameters, variableValues, paramsLoaded, timer, img>>

\* fetchParameters after its awaits, for the activation f and the response
\* res: the variables are taken from result.data.variables or from
\* result.variables, and the body sync effect follows.
ParamSettled(f, res) ==
    LET data == res.body
        result == IF data.hasResult THEN data.result ELSE JUndefined
        nested == Get(Get(result, "data"), "variables")
        flat == Get(result, "variables")
        variables == IF JsTruthy(nested) THEN nested ELSE flat
        initial == [n \in DOMAIN variables.a |->
                        [key |-> VariableIds(variables)[n], val |-> <<>>]]
    IN  IF res.uncaught
        THEN /\ paramsError' = "Unexpected end of JSON input"
             /\ UNCHANGED <<parameters, variableValues, paramsLoaded, body>>
        ELSE IF IsErrorEnvelope(data)
        THEN /\ paramsError' = data.error
             /\ UNCHANGED <<parameters, variableValues, paramsLoaded, body>>
        ELSE IF JsTruthy(nested) \/ JsTruthy(flat)
        THEN /\ parameters' = VariableIds(variables)
             /\ variableValues' = initial
             /\ paramsLoaded' = TRUE
             /\ body' = IF isCompile THEN SyncedBody(initial) ELSE body
             /\ UNCHANGED paramsError
        ELSE /\ paramsError' = "Unexpected response format"
             /\ UNCHANGED <<parameters, variableValues, paramsLoaded, body>>

\* The response to one of the posted requests arrives, in any order.
ParamResponse ==
    /\ \E k \in DOMAIN pfetch :
        /\ \E res \in ParamResponses(pfetch[k]) : ParamSettled(pfetch[k], res)
        /\ pfetch' = Remove(pfetch, k)
    /\ loadingParams' = FALSE
    /\ UNCHANGED <<baseUrl, apiKey, selectedEndpoint, resourceId, fwdVars, response,
                   isLoading, error, logs, compileResult, sub, timer, img>>

\* Mutant: the catch block of fetchParameters reports into error as well.
ParamFetchRejects_SetsError ==
    /\ \E k \in DOMAIN pfetch :
        /\ \E e \in NetErrors :
            /\ paramsError' = (IF e.isError THEN e.message ELSE "Failed to fetch parameters")
            /\ error' = paramsError'
        /\ pfetch' = Remove(pfetch, k)
    /\ loadingParams' = FALSE
    /\ UNCHANGED <<formVars, fwdVars, response, isLoading, logs, compileResult,
                   sub, parameters, variableValues, paramsLoaded, timer, img>>

\* fetch('/api/prompt') of fetchParameters rejects.
ParamFetchRejects ==
    /\ \E k \in DOMAIN pfetch :
        /\ \E e \in NetErrors :
            paramsError' = IF e.isError THEN e.message ELSE "Failed to fetch parameters"
        /\ pfetch' = Remove(pfetch, k)
    /\ loadingParams' = FALSE
    /\ UNCHANGED <<formVars, fwdVars, response, isLoading, error, logs, compileResult,
                   sub, parameters, variableValues, paramsLoaded, timer, img>>

\* The Reload link of the variable form.
Reload ==
    /\ isCompile /\ paramsLoaded
    /\ paramsLoaded' = FALSE
    /\ parameters' = <<>>
    /\ variableValues' = <<>>
    /\ UNCHANGED <<formVars, fwdVars, response, isLoading, error, logs, compileResult,
                   sub, loadingParams, paramsError, timer, pfetch, img>>

\* { ...prev, [key]: val }
SetEntry(values, key, val) ==
    IF \E n \in DOMAIN values : values[n].key = key
    THEN [n \in DOMAIN values |->
            IF values[n].key = key THEN [key |-> key, val |-> val] ELSE values[n]]
    ELSE Append(values, [key |-> key, val |-> val])

\* The user types into the field of a variable; the body sync effect follows.
SetVariable ==
    /\ isCompile /\ paramsLoaded
    /\ \E n \in DOMAIN parameters : \E val \in VariableTexts :
        /\ variableValues' = SetEntry(variableValues, parameters[n], val)
        /\ variableValues' # variableValues
    /\ body' = SyncedBody(variableValues')
    /\ UNCHANGED <<baseUrl, apiKey, selectedEndpoint, resourceId, fwdVars, response,
                   isLoading, error, logs, compileResult, sub, parameters,
                   loadingParams, paramsLoaded, paramsError, timer, pfetch, img>>

(***************************************************************************)
(* The image analysis endpoint (api/analyze-image/route.ts).               *)
(***************************************************************************)
\* The request bodies: text that is no JSON, JSON null, a JSON number, and
\* objects with or without image.
ImageRequest ==
    {[kind |-> k, image |-> Undefined] : k \in {"invalid", "null", "prim"}}
    \cup {[kind |-> "obj", image |-> v] :
            v \in {Undefined, Str(""), Str("aGVsbG8="), Str("iVBORw0KGgo=")}}

ImgCallers == {"a", "b"}

\* The statuses of the chat-completion API.
ImgStatuses == {200, 401, 500}

\* The JSON answers of the chat-completion API: a completion, an answer
\* without choices, with no choice, with a message without content, with
\* null content, and JSON null.
Completion(message) == JObj([choices |-> JArr(<<JObj([message |-> message])>>)])

ImgAnswers ==
    {Completion(JObj([content |-> JStr("A cat")])),
     JObj([error |-> JStr("bad request")]),
     JObj([choices |-> JArr(<<>>)]),
     Completion(JObj([role |-> JStr("assistant")])),
     Completion(JObj([content |-> JNull])),
     JNull}

NoImgBody ==
    [hasError |-> FALSE, error |-> "", hasMessage |-> FALSE, message |-> "",
     hasAnalyzedImage |-> FALSE, image |-> "",
     hasDescription |-> FALSE, description |-> JNull]

NoImgResp == [sent |-> FALSE, status |-> 0, uncaught |-> FALSE, body |-> NoImgBody]

\* pc: "idle", "fetching" (awaiting fetch), "reading" (awaiting
\* response.json()), "done".  calls counts the fetch() calls made; answer is
\* the upstream's JSON once response.json() has resolved.
IdleImg ==
    [c \in ImgCallers |->
        [pc |-> "idle", raw |-> [kind |-> "invalid", image |-> Undefined],
         calls |-> 0, url |-> "", upStatus |-> 0,
         answer |-> [read |-> FALSE, data |-> JNull], resp |-> NoImgResp]]

\* NextResponse.json({ error }, { status })
ImgError(status, message) ==
    [sent |-> TRUE, status |-> status, uncaught |-> FALSE,
     body |-> [NoImgBody EXCEPT !.hasError = TRUE, !.error = message]]

\* POST up to its await of fetch().  Destructuring the JSON value null
\* throws outside the try blocks: the framework answers 500 with no JSON body.
ImagePOST(raw) ==
    LET i == [pc |-> "done", raw |-> raw, calls |-> 0, url |-> "", upStatus |-> 0,
              answer |-> [read |-> FALSE, data |-> JNull], resp |-> NoImgResp]
    IN  IF raw.kind = "invalid"
        THEN [i EXCEPT !.resp = ImgError(400, "Invalid JSON in request body")]
        ELSE IF raw.kind = "null"
        THEN [i EXCEPT !.resp = [NoImgResp EXCEPT !.sent = TRUE, !.status = 500,
                                                  !.uncaught = TRUE]]
        ELSE IF ~Truthy(raw.image)
        THEN [i EXCEPT !.resp = ImgError(400, "Invalid input: image data is required")]
        ELSE [i EXCEPT !.pc = "fetching", !.calls = 1,
                       !.url = "data:image/jpeg;base64," \o raw.image.s]

\* The catch block.
ImgCatch(i) ==
    [i EXCEPT !.pc = "done", !.resp = ImgError(500, "Failed to analyze image")]

\* fetch() resolved: a status that is not ok is thrown.
ImgFetchResolved(i, status) ==
    IF IsOk(status)
    THEN [i EXCEPT !.pc = "reading", !.upStatus = status]
    ELSE ImgCatch([i EXCEPT !.upStatus = status])

\* v[0]
First(v) ==
    IF v.k = "arr" /\ v.a # <<>> THEN v.a[1] ELSE JUndefined

\* Reading a property of null or undefined throws a TypeError.
Nullish(v) == v.k \in {"null", "undefined"}

\* data.choices[0].message.content: thrown is TRUE when the expression
\* throws, and content is its value otherwise.
Description(data) ==
    LET choices == Get(data, "choices")
        choice == First(choices)
        message == Get(choice, "message")
    IN  [thrown |-> Nullish(data) \/ Nullish(choices) \/ Nullish(choice)
                    \/ Nullish(message),
         content |-> Get(message, "content")]

\* response.json() resolved with data: the final NextResponse.json, in which
\* a description that is undefined is left out.
ImgRead(i, data) ==
    LET d == Description(data)
    IN  IF d.thrown THEN ImgCatch([i EXCEPT !.answer = [read |-> TRUE, data |-> data]])
        ELSE [i EXCEPT !.pc = "done", !.answer = [read |-> TRUE, data |-> data],
                !.resp = [sent |-> TRUE, status |-> 200, uncaught |-> FALSE,
                          body |-> [NoImgBody EXCEPT
                            !.hasMessage = TRUE,
                            !.message = "Image analyzed successfully",
                            !.hasAnalyzedImage = TRUE, !.image = i.raw.image.s,
                            !.hasDescription = (d.content.k # "undefined"),
                            !.description = IF d.content.k # "undefined"
                                            THEN d.content ELSE JNull]]]

ImgReceive(c) ==
    /\ img[c].pc = "idle"
    /\ \E raw \in ImageRequest : img' = [img EXCEPT ![c] = ImagePOST(raw)]
    /\ UNCHANGED <<fwdVars, clientVars>>

ImgFetchResolves(c) ==
    /\ img[c].pc = "fetching"
    /\ \E status \in ImgStatuses : img' = [img EXCEPT ![c] = ImgFetchResolved(img[c], status)]
    /\ UNCHANGED <<fwdVars, clientVars>>

ImgFetchRejects(c) ==
    /\ img[c].pc = "fetching"
    /\ img' = [img EXCEPT ![c] = ImgCatch(img[c])]
    /\ UNCHANGED <<fwdVars, clientVars>>

ImgJsonResolves(c) ==
    /\ img[c].pc = "reading"
    /\ \E data \in ImgAnswers : img' = [img EXCEPT ![c] = ImgRead(img[c], data)]
    /\ UNCHANGED <<fwdVars, clientVars>>

\* The answer's body is no JSON, or the connection drops while it is read.
ImgJsonRejects(c) ==
    /\ img[c].pc = "reading"
    /\ img' = [img EXCEPT ![c] = ImgCatch(img[c])]
    /\ UNCHANGED <<fwdVars, clientVars>>

\* The caller has its response; the invocation is over.
ImgReturn(c) ==
    /\ img[c].pc = "done"
    /\ img' = [img EXCEPT ![c] = IdleImg[c]]
    /\ UNCHANGED <<fwdVars, clientVars>>

(***************************************************************************)
(* The claims.                                                             *)
(***************************************************************************)
Methods == {"GET", "POST", "PUT", "DELETE"}

\* A required field of the targetUrl/method request is missing or empty.
MissingField(raw) ==
    \/ ~raw.targetUrl.def \/ raw.targetUrl.s = ""
    \/ ~raw.apiKey.def \/ raw.apiKey.s = ""
    \/ ~raw.method.def \/ raw.method.s = ""

\* The outbound call completed: fetch resolved and the body was read.
Completed(i) == i.pc = "done" /\ i.up.reached /\ i.responseText.read

C2_BodyOnlyOnPostPut ==
    \A c \in Callers :
        LET i == inv[c]
            supplied == i.raw.body.def /\ i.raw.body.s # ""
        IN  (i.rev = "proxy" /\ i.out.sent) =>
              /\ i.out.hasBody <=> (i.raw.method.s \in {"POST", "PUT"} /\ supplied)
              /\ i.out.hasBody => i.out.body = i.raw.body.s
              /\ i.raw.method.s \in {"GET", "DELETE"} => ~i.out.hasBody

\* C2 witness: a DELETE with a body supplied went out without one.
C2_Witness ==
    LET i == inv["direct"]
    IN  /\ i.rev = "proxy" /\ i.out.sent /\ i.raw.method.s = "DELETE"
        /\ i.raw.body = Str(TxtPlain) /\ ~i.out.hasBody

\* The envelope { result, meta } with the upstream's status and status text.
UpstreamEnvelope(i) ==
    /\ i.resp.body.hasResult /\ i.resp.body.hasMeta /\ ~i.resp.body.hasError
    /\ i.resp.body.meta.status = i.up.status
    /\ i.resp.body.meta.statusText = i.up.statusText

\* C3 as stated: whenever the outbound call completes, either revision
\* returns outer status 200 with { result, meta } carrying the upstream's
\* status and status text.
C3_AlwaysOuter200 ==
    \A c \in Callers :
        LET i == inv[c]
        IN  (i.pc = "done" /\ i.up.reached /\ i.responseText.read)
            => (i.resp.status = 200 /\ UpstreamEnvelope(i))

\* C3 amended: the targetUrl/method revision returns outer 200 with the
\* envelope for every upstream status; the apiUrl/body revision returns
\* outer 200 for a 2xx upstream and echoes any other upstream status that
\* may carry a body as the outer status, with the same envelope.
C3_OuterStatusPerRevision ==
    \A c \in Callers :
        LET i == inv[c]
        IN  Completed(i) =>
              /\ i.rev = "proxy" => (i.resp.status = 200 /\ UpstreamEnvelope(i))
              /\ (i.rev = "prompt" /\ IsOk(i.up.status))
                 => (i.resp.status = 200 /\ UpstreamEnvelope(i))
              /\ (i.rev = "prompt" /\ ~IsOk(i.up.status)
                    /\ i.up.status \notin NullBodyStatus)
                 => (i.resp.status = i.up.status /\ UpstreamEnvelope(i))

\* C3 witness: the targetUrl/method revision wrapped an upstream 404 in 200.
C3_Witness ==
    LET i == inv["direct"]
    IN  /\ i.rev = "proxy" /\ Completed(i) /\ i.up.status = 404
        /\ i.resp.status = 200 /\ i.resp.body.meta.status = 404

\* C4: in the targetUrl/method revision every exception raised while the
\* outbound call is performed gives outer 502 with { error: message, meta:
\* { status 0, "Network Error", duration, no headers } } and no result.
C4_NetworkErrorEnvelope ==
    \A c \in Callers :
        LET i == inv[c]
        IN  (i.rev = "proxy" /\ i.caught.is) =>
              /\ i.pc = "done" /\ i.resp.sent /\ i.resp.status = 502
              /\ i.resp.body.hasError /\ i.resp.body.error = i.caught.message
              /\ ~i.resp.body.hasResult
              /\ i.resp.body.hasMeta
              /\ i.resp.body.meta.status = 0
              /\ i.resp.body.meta.statusText = "Network Error"
              /\ i.resp.body.meta.responseHeaders = NoHeaders
              /\ i.resp.body.meta.duration >= 0
              /\ i.resp.body.meta.duration <= now - i.startTime

\* C4 witness: fetch rejected some time after the call was made.
C4_Witness ==
    LET i == inv["direct"]
    IN  /\ i.rev = "proxy" /\ i.caught.is /\ ~i.up.reached
        /\ i.resp.status = 502 /\ i.resp.body.meta.duration > 0

\* C5 as stated: in the targetUrl/method revision, once the target was
\* reached and answered (status line and headers received) the envelope
\* carries the upstream's status, never status 0.
C5_ReachedNeverStatus0 ==
    \A c \in Callers :
        LET i == inv[c]
        IN  (i.rev = "proxy" /\ i.pc = "done" /\ i.up.reached) =>
              /\ i.resp.body.hasMeta
              /\ i.resp.body.meta.status = i.up.status
              /\ i.resp.body.meta.status # 0

\* C6 as stated: in the targetUrl/method revision a JSON payload that is not
\* ForwardRequest-shaped (not an object, or a method outside GET, POST, PUT,
\* DELETE) is answered with a 4xx carrying an error message, so every
\* outbound call uses one of the four methods.
C6_OnlyForwardRequestShape ==
    \A c \in Callers :
        LET i == inv[c]
            misshapen == \/ i.raw.kind \in {"null", "prim"}
                         \/ (i.raw.kind = "obj" /\ i.raw.method.def
                                /\ i.raw.method.s \notin Methods)
        IN  (i.rev = "proxy" /\ i.pc # "idle") =>
              /\ misshapen => /\ i.resp.sent
                              /\ i.resp.status \in 400..499
                              /\ i.resp.body.hasError
                              /\ i.calls = 0
              /\ i.out.sent => i.out.method \in Methods

\* C7: in the targetUrl/method revision result is the parsed value when the
\* upstream body text is JSON and the raw text, unchanged, when it is not.
C7_ResultNormalization ==
    \A c \in Callers :
        LET i == inv[c]
            text == i.responseText.s
        IN  (i.rev = "proxy" /\ Completed(i)) =>
              /\ i.resp.body.hasResult
              /\ JsonParse(text).ok => i.resp.body.result = JsonParse(text).val
              /\ ~JsonParse(text).ok => i.resp.body.result = JStr(text)
              /\ text = TxtObjA => i.resp.body.result = JObj([a |-> JNum(1)])
              /\ text = TxtPlain => i.resp.body.result = JStr("plain text")

\* C7 witness: a body that is no JSON came back as the raw text.
C7_Witness ==
    LET i == inv["direct"]
    IN  /\ i.rev = "proxy" /\ Completed(i) /\ i.responseText.s = TxtPlain
        /\ i.resp.body.result = JStr("plain text")


\* The entries a step appended to the log.
Appended == SubSeq(logs', Len(logs) + 1, Len(logs'))

\* How many entries of a log have the given severity, or the given message.
RECURSIVE CountType(_, _)
CountType(entries, type) ==
    IF entries = <<>> THEN 0
    ELSE (IF Head(entries).type = type THEN 1 ELSE 0) + CountType(Tail(entries), type)

RECURSIVE CountMessage(_, _)
CountMessage(entries, message) ==
    IF entries = <<>> THEN 0
    ELSE (IF Head(entries).message = message THEN 1 ELSE 0)
         + CountMessage(Tail(entries), message)

\* The step in which a submission ends; it failed when it leaves an error.
Settles == sub.pc = "fetch" /\ sub'.pc = "idle"

\* Nothing is retried: an invocation makes at most one outbound call and a
\* submission posts at most once to the Forwarding Service.
NoRetry ==
    /\ \A c \in Callers : inv[c].calls <= 1
    /\ sub.posts <= 1
    /\ sub.pc = "fetch" => (sub.posts = 1 /\ error = "")

NoBaseOrKey == baseUrl = <<>> \/ apiKey = <<>>

NoResourceId == selectedEndpoint.hasPromptId /\ resourceId = <<>>

NoRequestBody == selectedEndpoint.hasBody /\ body = ""

\* C9: handleSubmit checks base URL and key, then the resource id, then the
\* body; the first failing check sets its one error string, nothing is
\* posted, and logs, response, compileResult and isLoading stay as they
\* were.
C9_ValidationFirstFailureWins ==
    [][(HandleSubmit /\ (NoBaseOrKey \/ NoResourceId \/ NoRequestBody)) =>
         /\ error' = (IF NoBaseOrKey THEN "Please enter a Base URL and API Key"
                      ELSE IF NoResourceId THEN "Please enter a resource ID"
                      ELSE "Please enter a request body")
         /\ logs' = logs /\ response' = response
         /\ compileResult' = compileResult /\ isLoading' = isLoading
         /\ sub' = sub /\ inv' = inv]_vars

\* C9 witness: a submission with an empty body was refused while the log,
\* the response and the compile result of an earlier submission were shown.
C9_Witness ==
    /\ error = "Please enter a request body"
    /\ body = "" /\ ~isLoading /\ sub.pc = "idle"
    /\ logs # <<>> /\ response # "" /\ compileResult.set

\* needle occurs in hay as a contiguous run.
IsSubstring(needle, hay) ==
    \E n \in 1..(Len(hay) - Len(needle) + 1) :
        SubSeq(hay, n, n + Len(needle) - 1) = needle

\* C10 as stated: for every key a submission is made with, the logged
\* "Authorization: Bearer ..." text is a prefix of the key, an ellipsis and
\* the last 4 characters, and never contains the full key.
C10_KeyNeverLogged ==
    (sub.pc = "fetch" /\ Len(logs) >= 2
        /\ logs[2].message = "Authorization: Bearer " \o Join(RedactedKey(sub.apiKey)))
    => LET key == sub.apiKey
           shown == RedactedKey(key)
       IN  /\ \E n \in 0..Len(key) :
                shown = SubSeq(key, 1, n) \o <<".", ".", ".">> \o SliceLast(key, 4)
           /\ ~IsSubstring(key, shown)

\* The path template with the placeholder replaced by the resource id as it
\* is, when the endpoint takes an id and one is given.
RECURSIVE Substituted(_)
Substituted(path) ==
    IF path = <<>> THEN <<>>
    ELSE (IF Head(path) = ":id" /\ selectedEndpoint.hasPromptId /\ resourceId # <<>>
          THEN resourceId ELSE <<Head(path)>>)
         \o Substituted(Tail(path))

\* A submission that passes validation starts in this step.
SubmissionStarts == HandleSubmit /\ sub.pc = "idle" /\ sub'.pc = "fetch"

\* C11: every submission that passes validation targets the base URL without
\* its trailing slashes followed by the endpoint's path in which :id is the
\* resource id; none of its pieces is the placeholder.
C11_TargetUrl ==
    [][SubmissionStarts =>
        LET base == StripTrailingSlashes(baseUrl)
            path == Substituted(selectedEndpoint.path)
        IN  /\ base = <<>> \/ base[Len(base)] # "/"
            /\ sub'.req.targetUrl.s = Join(base \o path)
            /\ buildUrl = Join(base \o path)]_vars

\* C12: the log changes only by appending, by the reset of a submission
\* that passes validation (which leaves the method+URL line, the redacted
\* key line, the body-size line when the endpoint has a body and it is not
\* empty, and "Sending request...", in this order) and by Clear; the lines
\* of the response are appended after those, the status line first, the
\* header lines next and the error or success line last.
C12_LogStateMachine ==
    [][\/ logs' = logs
       \/ ClearLogs /\ logs' = <<>>
       \/ /\ SubmissionStarts
          /\ LET withBody == selectedEndpoint.hasBody /\ body # ""
                 n == IF withBody THEN 4 ELSE 3
             IN  /\ Len(logs') = n
                 /\ \A k \in 1..n : logs'[k].type = "info"
                 /\ logs'[1].message
                      = selectedEndpoint.method \o " " \o sub'.req.targetUrl.s
                 /\ logs'[2].message
                      = "Authorization: Bearer " \o Join(RedactedKey(apiKey))
                 /\ withBody =>
                      logs'[3].message = "Body: " \o ToString(Len(body)) \o " bytes"
                 /\ logs'[n].message = "Sending request..."
       \/ /\ Settles
          /\ Len(logs') > Len(logs)
          /\ SubSeq(logs', 1, Len(logs)) = logs
          /\ Appended[Len(Appended)].type \in {"error", "success"}
          /\ \A k \in 2..(Len(Appended) - 1) : Appended[k].type = "info"
          /\ Len(Appended) > 1 => Appended[1].type \in {"error", "success"}]_vars

\* C12 witness: a submission with a body has logged its four request lines
\* and, after them, the status line, two header lines and the success line.
C12_Witness ==
    /\ sub.pc = "idle" /\ Len(logs) = 8
    /\ logs[4].message = "Sending request..."
    /\ logs[5].type = "success"
    /\ logs[8].message = "Response received"

\* C13: isLoading is true exactly while a submission awaits its response,
\* and a submission starts only when none is outstanding; no activation of
\* handleSubmit posts more than once.
C13_OneSubmissionInFlight ==
    /\ [](isLoading <=> sub.pc = "fetch")
    /\ [](sub.posts <= 1)
    /\ [][(HandleSubmit /\ ValidationError = "") => (sub.pc = "idle" /\ ~isLoading)]_vars

\* C13 witness: a submission is outstanding, the service is reading the
\* upstream's answer, and the submit button is disabled.
C13_Witness ==
    /\ isLoading /\ SubmitDisabled
    /\ sub.pc = "fetch" /\ inv["submit"].pc = "reading"

\* The response a submission settles with, when it is an envelope.
Envelope == inv["submit"].resp.body

EnvelopeArrives == SubmitResponse /\ ~inv["submit"].resp.uncaught

\* C17: a submission that completes with an envelope holding a result leaves
\* the pretty-printed text of that result in response, whatever the result
\* is; with no result, response stays empty.
C17_ResultDisplayed ==
    [][EnvelopeArrives =>
        IF Envelope.hasResult
        THEN response' = JsonPretty(Envelope.result)
        ELSE response' = ""]_vars

\* C18: a submission to the compile endpoint whose result has a string
\* compiled, directly or under data, sets compileResult from the object at
\* that depth, with promptId defaulting to the resource id and version to
\* "?"; otherwise compileResult stays null.
C18_CompileExtraction ==
    [][(EnvelopeArrives /\ sub.isCompile /\ Envelope.hasResult) =>
        LET direct == Envelope.result
            nested == Get(Envelope.result, "data")
            hasCompiled(r) == Get(r, "compiled").k = "str"
            from(r) ==
                /\ compileResult'.set
                /\ compileResult'.compiled = Get(r, "compiled").s
                /\ compileResult'.promptId
                    = IF JsTruthy(Get(r, "promptId")) THEN Get(r, "promptId").s
                      ELSE Join(sub.resourceId)
                /\ compileResult'.version
                    = IF JsTruthy(Get(r, "version")) THEN Get(r, "version").s ELSE "?"
        IN  IF hasCompiled(nested) THEN from(nested)
            ELSE IF hasCompiled(direct) THEN from(direct)
            ELSE compileResult' = NoCompileResult]_vars

\* The two state slices of the claim.
submitSlice == <<response, error, logs, compileResult, isLoading>>

paramSlice == <<parameters, variableValues, paramsLoaded, paramsError, loadingParams>>

\* C14: the start and the completion of a parameter fetch, from the timer or
\* from the button (the steps that change pfetch), leave response, error,
\* logs, compileResult and isLoading as they are; every step of a submission
\* (the steps that change the activation of handleSubmit, the invocation
\* serving it, or error) leaves parameters, variableValues, paramsLoaded,
\* paramsError and loadingParams as they are; no step changes both slices.
C14_FetchAndSubmitIndependent ==
    [][/\ pfetch' # pfetch => UNCHANGED submitSlice
       /\ (sub' # sub \/ inv' # inv \/ error' # error) => UNCHANGED paramSlice
       /\ UNCHANGED submitSlice \/ UNCHANGED paramSlice]_vars

\* C14 witness: a submission and a parameter fetch are outstanding together,
\* after another parameter fetch has loaded the form.
C14_Witness ==
    /\ sub.pc = "fetch" /\ isLoading
    /\ pfetch # <<>> /\ loadingParams = FALSE /\ paramsLoaded

\* C15: a change of the resource id empties parameters and variableValues,
\* clears paramsLoaded and paramsError, posts nothing, and leaves a timer
\* pending exactly when the compile endpoint is selected and id, key and
\* base URL are not empty; a pending timer is always for the id in the form;
\* when it fires, one GET to <base>/api/v1/prompts/<id>/parameters is posted
\* to the Forwarding Service, which makes one outbound call.
C15_DebouncedAutoFetch ==
    /\ [](timer.set => (timer.resourceId = resourceId /\ resourceId # <<>>))
    /\ [][/\ resourceId' # resourceId =>
                /\ parameters' = <<>> /\ variableValues' = <<>>
                /\ ~paramsLoaded' /\ paramsError' = ""
                /\ pfetch' = pfetch
                /\ timer'.set <=> (isCompile /\ resourceId' # <<>>
                                    /\ apiKey # <<>> /\ baseUrl # <<>>)
          /\ TimerFires =>
                LET f == pfetch'[Len(pfetch')]
                    i == ProxyPOST(ParamRequest(f), now)
                    url == Join(StripTrailingSlashes(timer.baseUrl))
                           \o "/api/v1/prompts/" \o Join(resourceId) \o "/parameters"
                IN  /\ Len(pfetch') = Len(pfetch) + 1
                    /\ SubSeq(pfetch', 1, Len(pfetch)) = pfetch
                    /\ ParamRequest(f).method = Str("GET")
                    /\ ParamRequest(f).targetUrl = Str(url)
                    /\ i.calls = 1 /\ i.out.method = "GET" /\ i.out.url = url
                    /\ ~timer'.set]_vars

\* C15 witness: the timer has fired while another fetch was outstanding, and
\* both requests are for the id in the form.
C15_Witness ==
    /\ Len(pfetch) = 2 /\ ~timer.set
    /\ \A k \in 1..2 : pfetch[k].resourceId = resourceId

\* The entries whose value is not all spaces.
NonBlank(values) ==
    SelectSeq(values, LAMBDA e : \E n \in DOMAIN e.val : e.val[n] # " ")

\* C19: whenever the compile endpoint is selected and the parameters are
\* loaded, the body is the 2-space pretty-printed JSON of { variables: V },
\* V holding the entries of variableValues that are not blank.
C19_BodySynchronised ==
    (isCompile /\ paramsLoaded) =>
        LET V == NonBlank(variableValues)
        IN  body = IF V = <<>> THEN "{\n  \"variables\": {}\n}"
                   ELSE "{\n  \"variables\": {\n" \o PrettyEntries(V) \o "\n  }\n}"

\* C19 witness: a variable holds a blank and the body has no entry for it.
C19_Witness ==
    /\ isCompile /\ paramsLoaded
    /\ \E n \in DOMAIN variableValues : variableValues[n].val = <<" ">>
    /\ body = "{\n  \"variables\": {}\n}"

\* The variables the upstream holds for a prompt id.
StoredVariables(rid) ==
    IF rid = P1 THEN <<"name">> ELSE IF rid = P2 THEN <<"topic">> ELSE <<>>

\* C20: whenever paramsLoaded is true, parameters and the keys of
\* variableValues are the variables of the resource id in the form.
C20_LoadedMatchesResourceId ==
    paramsLoaded =>
        /\ parameters = StoredVariables(resourceId)
        /\ [n \in DOMAIN variableValues |-> variableValues[n].key]
           = StoredVariables(resourceId)

\* C16: every POST to the image analysis endpoint ends in one of three
\* ways: 400 with an error and no upstream call when the body is not JSON or
\* image is missing or empty; 500 with an error when the upstream call
\* throws, answers a status that is not ok, or its answer has no string at
\* choices[0].message.content; 200 with the message, the request's image
\* and that string as description otherwise.
C16_OutcomeClassification ==
    \A c \in ImgCallers :
        LET i == img[c]
            b == i.resp.body
            content == Get(Get(First(Get(i.answer.data, "choices")), "message"), "content")
            noImage == i.raw.kind # "obj" \/ ~Truthy(i.raw.image)
        IN  i.pc = "done" =>
              IF noImage
              THEN /\ i.resp.status = 400 /\ b.hasError /\ ~b.hasAnalyzedImage
                   /\ i.calls = 0
              ELSE IF ~i.answer.read \/ content.k # "str"
              THEN /\ i.resp.status = 500 /\ b.hasError /\ ~b.hasAnalyzedImage
                   /\ i.calls = 1
              ELSE /\ i.resp.status = 200 /\ ~b.hasError
                   /\ b.hasMessage /\ b.hasAnalyzedImage
                   /\ b.image = i.raw.image.s
                   /\ b.hasDescription /\ b.description = content
                   /\ i.calls = 1

\* C21: compileResult is set only while the compile endpoint is the
\* selected one.
C21_CompileViewOnCompileEndpoint == compileResult.set => isCompile

\* C22: a submission that passes validation sets isLoading; isLoading is
\* true only while a submission is in flight; and once the call to the
\* Forwarding Service resolves or rejects, isLoading is false again and the
\* submit button enabled.
C22_SubmissionFinishes ==
    /\ [](isLoading => sub.pc = "fetch")
    /\ [][SubmissionStarts => isLoading']_vars
    /\ isLoading ~> (~isLoading /\ ~SubmitDisabled /\ sub.pc = "idle")

\* C22 witness: a submission has finished on a response that was no JSON.
C22_Witness ==
    /\ ~isLoading /\ ~SubmitDisabled
    /\ sub.pc = "idle" /\ sub.posts = 1
    /\ error = "Unexpected token '<', \"<!DOCTYPE \"... is not valid JSON"

(***************************************************************************)
(* Specifications.                                                         *)
(***************************************************************************)
ClientInit ==
    /\ baseUrl = DefaultBase
    /\ apiKey = <<>>
    /\ selectedEndpoint = ENDPOINTS[1]
    /\ resourceId = <<>>
    /\ body = ENDPOINTS[1].defaultBody
    /\ response = ""
    /\ isLoading = FALSE
    /\ error = ""
    /\ logs = <<>>
    /\ compileResult = NoCompileResult
    /\ sub = NoSub
    /\ parameters = <<>>
    /\ variableValues = <<>>
    /\ loadingParams = FALSE
    /\ paramsLoaded = FALSE
    /\ paramsError = ""
    /\ timer = NoTimer
    /\ pfetch = <<>>

FwdInit ==
    /\ inv = [c \in Callers |-> IdleInv]
    /\ now = 0

ImgInit == img = IdleImg

Init == FwdInit /\ ClientInit /\ ImgInit

\* The Forwarding Service under any direct caller.
FwdNext ==
    \/ Receive
    \/ FetchResolves("direct")
    \/ FetchRejects("direct")
    \/ TextResolves("direct")
    \/ TextRejects("direct")
    \/ Return
    \/ Tick

SpecFwd == Init /\ [][FwdNext]_vars

\* A Client Controller session with the Forwarding Service behind it.
Next ==
    \/ SetBaseUrl
    \/ SetApiKey
    \/ SetResourceId
    \/ SetBody
    \/ SelectEndpoint
    \/ ClearLogs
    \/ HandleSubmit
    \/ Deliver
    \/ FetchResolves("submit")
    \/ FetchRejects("submit")
    \/ TextResolves("submit")
    \/ TextRejects("submit")
    \/ SubmitResponse
    \/ SubmitFetchRejects

Spec == Init /\ [][Next]_vars

\* The compile panel of a Client Controller session: the form, the timer,
\* the parameter fetches and the variable fields.
ParamsNext ==
    \/ SetBaseUrl
    \/ SetApiKey
    \/ SetResourceId
    \/ SetBody
    \/ SelectEndpoint
    \/ TimerFires
    \/ LoadParameters
    \/ ParamResponse
    \/ ParamFetchRejects
    \/ Reload
    \/ SetVariable

SpecParams == Init /\ [][ParamsNext]_vars

\* A session on the compile endpoint: parameter fetches and submissions
\* side by side.
CompileNext ==
    \/ SetApiKey
    \/ SetResourceId
    \/ TimerFires
    \/ LoadParameters
    \/ ParamResponse
    \/ ParamFetchRejects
    \/ HandleSubmit
    \/ Deliver
    \/ FetchResolves("submit")
    \/ FetchRejects("submit")
    \/ TextResolves("submit")
    \/ TextRejects("submit")
    \/ SubmitResponse
    \/ SubmitFetchRejects

SpecCompile == Init /\ [][CompileNext]_vars

\* Submissions whose call to the Forwarding Service always settles: it
\* resolves with the service's response, resolves with a body that is no
\* JSON, or rejects.
LiveNext ==
    \/ SetApiKey
    \/ SetResourceId
    \/ SelectEndpoint
    \/ HandleSubmit
    \/ Deliver
    \/ FetchResolves("submit")
    \/ FetchRejects("submit")
    \/ TextResolves("submit")
    \/ TextRejects("submit")
    \/ SubmitResponse
    \/ SubmitFetchRejects
    \/ SubmitJsonRejects

SpecLive ==
    /\ Init /\ [][LiveNext]_vars
    /\ WF_vars(SubmitResponse \/ SubmitFetchRejects \/ SubmitJsonRejects)

\* The image analysis endpoint serving two callers.
ImgNext ==
    \/ \E c \in ImgCallers : ImgReceive(c)
    \/ \E c \in ImgCallers : ImgFetchResolves(c)
    \/ \E c \in ImgCallers : ImgFetchRejects(c)
    \/ \E c \in ImgCallers : ImgJsonResolves(c)
    \/ \E c \in ImgCallers : ImgJsonRejects(c)
    \/ \E c \in ImgCallers : ImgReturn(c)

SpecImg == Init /\ [][ImgNext]_vars

====
